---- MODULE Spec2Model ----
(***************************************************************************)
(* Model of the per-room real-time session engine of the collaborative     *)
(* study room backend:                                                     *)
(*   app/core/timer_manager.py   TimerManager (timers, tasks, _lock, _run) *)
(*   app/routers/websocket.py    websocket_endpoint, timer_broadcast       *)
(*                                                                         *)
(* The program runs on one asyncio event loop.  A coroutine runs without   *)
(* interruption until it awaits something that is not ready; coroutines    *)
(* made runnable are executed in the order in which they were scheduled    *)
(* (variable ready).  cur is the coroutine the loop is executing.          *)
(***************************************************************************)
EXTENDS Integers, Sequences, FiniteSets, TLC

\* ------------------------------------------------------------------ bounds
NumRooms    == 1
MaxDuration == 2
MaxTasks    == 2
NumClients  == 1
NumConns    == 1
MaxMessages == 2
NumSockets  == 3
NumCallers  == 2
NumPeers    == 2
NumIsoRooms == 2
NumJoiners  == 2
MaxStored   == 52

Rooms     == 1..NumRooms
Durations == 0..MaxDuration
TaskIds   == 1..MaxTasks
ClientIds == (MaxTasks + 1)..(MaxTasks + NumClients)
ConnIds   == (MaxTasks + NumClients + 1)..(MaxTasks + NumClients + NumConns)
Sockets   == 1..NumSockets
Joiners   == 1..NumJoiners
IsoRooms  == 1..NumIsoRooms
Peers     == (MaxTasks + NumClients + NumConns + NumCallers + 1)..(MaxTasks + NumClients + NumConns + NumCallers + NumPeers)
Callers   == (MaxTasks + NumClients + NumConns + 1)..(MaxTasks + NumClients + NumConns + NumCallers)
NoProc    == 0

\* --------------------------------------------------------------- callbacks
\* The engine awaits broadcast_cb(room_id, remaining, is_running, duration).
NotifyArgs == 4
\* A notification sink as the engine's signature declares it:
\* Callable[[int, int, bool, int], asyncio.Future].
SinkParams == 4
\* async def timer_broadcast(room_id, remaining, is_running)
TimerBroadcastParams == 3

\* program constants of the websocket flow
PolicyViolation == 1008
DefaultDuration == 1500
HistoryLimit    == 50

Params(cb) == IF cb = "sink" THEN SinkParams ELSE TimerBroadcastParams

\* Calling a Python function with the wrong number of positional arguments
\* raises TypeError before its body runs.
CbRaises(cb) == Params(cb) # NotifyArgs

VARIABLES
    timers,     \* TimerManager.timers : room_id -> TimerInfo (a dict)
    tasks,      \* TimerManager.tasks  : room_id -> task      (a dict)
    lock,       \* TimerManager._lock  : the holder, or NoProc
    waiters,    \* _lock's queue of waiting coroutines, oldest first
    fut,        \* per coroutine: the state of its lock-waiter future
    task,       \* per task: room, duration, cb of _run, its position, cancel()
    ready,      \* the event loop's queue of runnable coroutines
    cur,        \* the coroutine the loop is executing, or NoProc
    client,     \* per direct caller of the engine: its position
    conn,       \* per websocket connection: the position of websocket_endpoint
    registry,   \* manager.active_connections : room_id -> connections (a list)
    messages,   \* per room: the persisted chat messages, oldest first
    inbox,      \* per connection: timer_update events received since the
                \* last command on its room
    ev,         \* what the last step consumed and sent, if a handler took it
    log,        \* per room: the notifications emitted since the last command
    lastCmd,    \* per room: the last engine operation that ran on it
    bc          \* the frame of a direct call of timer_broadcast

vars == <<timers, tasks, lock, waiters, fut, task, ready, cur, client,
          conn, registry, messages, inbox, ev, log, lastCmd, bc>>

\* ------------------------------------------------------------ dict helpers
Put(f, k, v) == [x \in (DOMAIN f) \cup {k} |-> IF x = k THEN v ELSE f[x]]
Pop(f, k)    == [x \in (DOMAIN f) \ {k} |-> f[x]]
EmptyDict    == [x \in {} |-> 0]

TimerInfo(duration, remaining, is_running) ==
    [duration |-> duration, remaining |-> remaining, is_running |-> is_running]

Max(a, b) == IF a >= b THEN a ELSE b

InSeq(s, x) == \E i \in 1..Len(s) : s[i] = x
Without(s, x) == SelectSeq(s, LAMBDA y : y # x)

\* ------------------------------------------------- inputs of a connection
\* What the handshake finds: the token of the query string, and the rows the
\* lookups of lines 49, 60 and 68 return.
Auth(token, user, room, part) == [token |-> token, user |-> user, room |-> room, part |-> part]
NoAuth == Auth("missing", FALSE, FALSE, FALSE)
AuthCases ==
    {Auth("missing", TRUE, TRUE, TRUE), Auth("invalid", TRUE, TRUE, TRUE),
     Auth("valid", FALSE, TRUE, FALSE), Auth("valid", TRUE, FALSE, FALSE),
     Auth("valid", TRUE, TRUE, FALSE), Auth("valid", TRUE, TRUE, TRUE)}

\* An inbound JSON payload: json is "object" or "other"; type and content are
\* the values of its keys; a content object carries event and duration.
Content(kind, event, hasD, d) == [kind |-> kind, event |-> event, hasD |-> hasD, d |-> d]
Inbound(json, type, content) == [json |-> json, type |-> type, content |-> content]
NoContent  == Content("absent", "absent", FALSE, 0)
StrContent == Content("string", "absent", FALSE, 0)
NoPayload  == Inbound("none", "absent", NoContent)

\* What one step of a connection handler consumed and sent: the handshake
\* facts or the payload, and the events sent as <<connection, event, id>>.
\* Steps of other processes consume and send nothing of this.
Event(c, kind, a, p, sent) == [conn |-> c, kind |-> kind, auth |-> a, payload |-> p, sent |-> sent]
NoEvent == Event(NoProc, "none", NoAuth, NoPayload, {})

\* ------------------------------------------------------------------- tasks
\* by, post and ovl are history: the operation whose cancel() reached the
\* task, the notifications it has made since, and whether another task of
\* its room has ticked since it last began to sleep.
FreeTask == [pc |-> "done", room |-> 0, dur |-> 0, cb |-> "sink", cancelReq |-> FALSE,
             by |-> "none", post |-> 0, ovl |-> FALSE]

Live(t) == task[t].pc # "done"
LiveTasksOf(r) == {t \in TaskIds : Live(t) /\ task[t].room = r}
\* a task that no cancel() has reached: it goes on ticking
TickingTasksOf(r) == {t \in LiveTasksOf(r) : ~task[t].cancelReq
                                              /\ task[t].pc \notin {"L73", "W73", "L74", "C76", "L80", "W80", "L81"}}

SlotFree(t) == task[t].pc = "done" /\ \A r \in DOMAIN tasks : tasks[r] # t
HasFreeSlot == \E t \in TaskIds : SlotFree(t)
NewTaskId   == CHOOSE t \in TaskIds : SlotFree(t) /\ \A u \in TaskIds : SlotFree(u) => t <= u

\* ------------------------------------------------------------ asyncio.Lock
\* Lock.acquire returns at once when the lock is free and every queued waiter
\* was cancelled; otherwise the caller queues behind the others.
CanLock(ws, f) == lock = NoProc /\ \A i \in 1..Len(ws) : f[ws[i]] = "cancelled"

\* mutant: a release that wakes no waiter
WakeReady_Never(ws, f, rd) == rd

\* Lock._wake_up_first: the first queued future gets its result unless it is done.
WakeFut(ws, f)      == IF ws # <<>> /\ f[ws[1]] = "pending" THEN [f EXCEPT ![ws[1]] = "result"] ELSE f
WakeReady(ws, f, rd) == IF ws # <<>> /\ f[ws[1]] = "pending" THEN Append(rd, ws[1]) ELSE rd

\* Task.cancel(): a finished task ignores it; otherwise the CancelledError is
\* thrown into the coroutine when it next runs, which is scheduled now unless
\* the task is already scheduled.
CancelTask(tk, t)   == IF tk[t].pc = "done" THEN tk ELSE [tk EXCEPT ![t].cancelReq = TRUE]
\* task.cancel() as called by operation op.  The history records the first
\* cancel that reaches the task before its finally block.
CancelBy(tk, t, op) ==
    IF tk[t].pc = "done" THEN tk
    ELSE [CancelTask(tk, t) EXCEPT
            ![t].by = IF @ = "none" /\ tk[t].pc \notin {"L80", "W80", "L81"} THEN op ELSE @]
CancelFut(f, t)     == IF f[t] = "pending" THEN [f EXCEPT ![t] = "cancelled"] ELSE f
CancelReady(rd, t)  == IF task[t].pc = "done" \/ InSeq(rd, t) THEN rd ELSE Append(rd, t)

\* ------------------------------------------------------ connection registry
\* The connections in the list of room r.
Registered(r) == {registry[r][i] : i \in 1..Len(registry[r])}

\* A connection whose handler died: the server closed its socket, sends fail.
Faulted(c) == conn[c].pc = "crashed"

\* ------------------------------------------------------------ history
NoInfo == TimerInfo(0, 0, FALSE)
NoSnapshot == [has |-> FALSE, info |-> NoInfo]
Snapshot(r) == [has |-> r \in DOMAIN timers,
                info |-> IF r \in DOMAIN timers THEN timers[r] ELSE NoInfo]
Cmd(op, r, d, hasD) ==
    [op |-> op, d |-> d, hasD |-> hasD,
     pre |-> IF op \in {"pause", "resume", "reset"} THEN Snapshot(r) ELSE NoSnapshot,
     clean |-> LiveTasksOf(r) = {}, subs |-> Registered(r)]
NoCmd == [op |-> "none", d |-> 0, hasD |-> FALSE,
          pre |-> NoSnapshot, clean |-> TRUE, subs |-> {}]

\* One awaited call broadcast_cb(room_id, remaining, is_running, duration) that
\* reached the sink, and the source line that made it.
Notification(remaining, is_running, duration, at) ==
    [remaining |-> remaining, is_running |-> is_running, duration |-> duration, at |-> at]

Emit(lg, r, n) == [lg EXCEPT ![r] = Append(@, n)]

\* The inboxes when a command starts on room r.
ClearInbox(r) == [c \in DOMAIN inbox |-> IF conn[c].room = r THEN <<>> ELSE inbox[c]]

\* ------------------------------------------------------ the awaited callback
\* timer_broadcast(room_id, remaining, is_running), lines 98-125 of
\* websocket.py: the event goes to every connection of the room's list; a
\* connection whose send fails is removed from the list afterwards.
TimerUpdate(remaining, is_running) == [remaining |-> remaining, is_running |-> is_running]

Delivered(inb, cb, r, remaining, is_running) ==
    IF cb = "timer_broadcast"
    THEN [c \in DOMAIN inb |-> IF c \in Registered(r) /\ ~Faulted(c)
                            THEN Append(inb[c], TimerUpdate(remaining, is_running))
                            ELSE inb[c]]
    ELSE inb

Pruned(cb, r) ==
    IF cb = "timer_broadcast"
    THEN [registry EXCEPT ![r] = SelectSeq(@, LAMBDA c : ~Faulted(c))]
    ELSE registry

\* The engine's call broadcast_cb(room_id, remaining, is_running, duration)
\* enters the callback.
Called(cb, r, n) ==
    /\ log' = Emit(log, r, n)
    /\ inbox' = Delivered(inbox, cb, r, n.remaining, n.is_running)
    /\ registry' = Pruned(cb, r)

\* ------------------------------------------- the callback's body, by steps
\* The frame of one call timer_broadcast(room_id, remaining, is_running):
\* pc is its position, i the position of "for conn in connections" in the
\* room's list (from 1), conn the loop variable, disconnected the local list
\* of line 102.  subs and stale record the room's list and its closed
\* connections at the call.
NoFrame == [pc |-> "none", room |-> 0, remaining |-> 0, is_running |-> FALSE,
            i |-> 0, conn |-> 0, disconnected |-> <<>>, subs |-> <<>>, stale |-> {}]

\* mutant: a send that fails ends the call with the exception
OnSendError_Propagates(f, c) == [f EXCEPT !.pc = "raised"]

\* lines 118-120: "except Exception" takes the failed send, notes the
\* connection and the loop goes on to the next one.
OnSendError(f, c) ==
    [f EXCEPT !.pc = "for", !.disconnected = Append(@, c), !.i = @ + 1]

\* ------------------------------------------------- TimerManager operations
\* Each operation is the body of its "async with self._lock" block, which holds
\* no await: it runs in one step.  rd, ws and f are the loop's queue, the
\* lock's queue and the waiter futures as the caller left them on entering;
\* leaving the block releases the lock, which wakes the first waiter.

\* mutant: a start that replaces only the task of a running timer
StartReplaces_OnlyRunning(r) ==
    r \in DOMAIN timers /\ r \in DOMAIN tasks /\ timers[r].is_running

\* Line 33: start cancels and replaces when state and a task entry exist.
StartReplaces(r) == r \in DOMAIN timers /\ r \in DOMAIN tasks

\* TimerManager.start
StartOp(r, d, cb, rd, ws, f) ==
    LET replace == StartReplaces(r)
        old     == IF replace THEN tasks[r] ELSE NoProc
        tk1     == IF replace THEN CancelBy(task, old, "start") ELSE task
        f1      == IF replace THEN CancelFut(f, old) ELSE f
        rd1     == IF replace THEN CancelReady(rd, old) ELSE rd
        new     == NewTaskId
    IN  /\ HasFreeSlot
        /\ timers' = Put(timers, r, TimerInfo(d, d, TRUE))
        /\ task' = [tk1 EXCEPT ![new] = [pc |-> "new", room |-> r, dur |-> d,
                                         cb |-> cb, cancelReq |-> FALSE,
                                         by |-> "none", post |-> 0, ovl |-> FALSE]]
        /\ tasks' = Put(tasks, r, new)
        /\ fut' = WakeFut(ws, f1)
        /\ ready' = WakeReady(ws, f1, Append(rd1, new))
        /\ waiters' = ws
        /\ log' = [log EXCEPT ![r] = <<>>]
        /\ inbox' = ClearInbox(r)
        /\ UNCHANGED registry
        /\ lastCmd' = [lastCmd EXCEPT ![r] = Cmd("start", r, d, TRUE)]

\* TimerManager.pause
PauseOp(r, rd, ws, f) ==
    /\ timers' = IF r \in DOMAIN timers
                 THEN [timers EXCEPT ![r].is_running = FALSE] ELSE timers
    /\ UNCHANGED <<tasks, task>>
    /\ fut' = WakeFut(ws, f)
    /\ ready' = WakeReady(ws, f, rd)
    /\ waiters' = ws
    /\ log' = [log EXCEPT ![r] = <<>>]
    /\ inbox' = ClearInbox(r)
    /\ UNCHANGED registry
    /\ lastCmd' = [lastCmd EXCEPT ![r] = Cmd("pause", r, 0, FALSE)]

\* mutant: a resume that does not look at is_running
ResumeSpawns_IgnoresRunning(r) == r \in DOMAIN timers

\* Lines 92-95: resume returns early without state or when already running.
ResumeSpawns(r) == r \in DOMAIN timers /\ ~timers[r].is_running

\* TimerManager.resume
ResumeOp(r, cb, rd, ws, f) ==
    LET spawn == ResumeSpawns(r)
        new   == NewTaskId
    IN  /\ spawn => HasFreeSlot
        /\ timers' = IF spawn THEN [timers EXCEPT ![r].is_running = TRUE] ELSE timers
        /\ task' = IF spawn
                   THEN [task EXCEPT ![new] = [pc |-> "new", room |-> r,
                                               dur |-> timers[r].duration,
                                               cb |-> cb, cancelReq |-> FALSE,
                                               by |-> "none", post |-> 0, ovl |-> FALSE]]
                   ELSE task
        /\ tasks' = IF spawn THEN Put(tasks, r, new) ELSE tasks
        /\ fut' = WakeFut(ws, f)
        /\ ready' = WakeReady(ws, f, IF spawn THEN Append(rd, new) ELSE rd)
        /\ waiters' = ws
        /\ log' = [log EXCEPT ![r] = <<>>]
        /\ inbox' = ClearInbox(r)
        /\ UNCHANGED registry
        /\ lastCmd' = [lastCmd EXCEPT ![r] = Cmd("resume", r, 0, FALSE)]

\* TimerManager.stop (the connection list is the caller's)
StopOp(r, rd, ws, f) ==
    LET has == r \in DOMAIN tasks
        old == IF has THEN tasks[r] ELSE NoProc
    IN  /\ task' = IF has THEN CancelBy(task, old, "stop") ELSE task
        /\ timers' = Pop(timers, r)
        /\ tasks' = Pop(tasks, r)
        /\ fut' = LET f1 == IF has THEN CancelFut(f, old) ELSE f IN WakeFut(ws, f1)
        /\ ready' = LET f1 == IF has THEN CancelFut(f, old) ELSE f
                        rd1 == IF has THEN CancelReady(rd, old) ELSE rd
                    IN WakeReady(ws, f1, rd1)
        /\ waiters' = ws
        /\ log' = [log EXCEPT ![r] = <<>>]
        /\ inbox' = ClearInbox(r)
        /\ lastCmd' = [lastCmd EXCEPT ![r] = Cmd("stop", r, 0, FALSE)]

\* mutant: a reset without duration that only clears the flag
ResetState_KeepsRemaining(r, d, hasD) ==
    IF hasD THEN Put(timers, r, TimerInfo(d, d, FALSE))
    ELSE IF r \in DOMAIN timers
         THEN [timers EXCEPT ![r].is_running = FALSE]
         ELSE timers

\* mutant: a reset without duration that makes up state for an unknown room
ResetState_CreatesState(r, d, hasD) ==
    IF hasD THEN Put(timers, r, TimerInfo(d, d, FALSE))
    ELSE IF r \in DOMAIN timers
         THEN [timers EXCEPT ![r] = TimerInfo(timers[r].duration, timers[r].duration, FALSE)]
         ELSE Put(timers, r, TimerInfo(0, 0, FALSE))

\* The state TimerManager.reset leaves under the lock (lines 110-116).
ResetState(r, d, hasD) ==
    IF hasD THEN Put(timers, r, TimerInfo(d, d, FALSE))
    ELSE IF r \in DOMAIN timers
         THEN [timers EXCEPT ![r] = TimerInfo(timers[r].duration, timers[r].duration, FALSE)]
         ELSE timers

\* mutant: a reset that announces only a nonzero duration
ResetNotifies_OnlyNonzero(ts, r) == r \in DOMAIN ts /\ ts[r].duration > 0

\* Lines 118-119: reset calls broadcast_cb when the room has state afterwards.
ResetNotifies(ts, r) == r \in DOMAIN ts

\* The call of line 120 raises when the callback does not take the engine's
\* arguments.
ResetRaises(r, d, hasD, cb) == ResetNotifies(ResetState(r, d, hasD), r) /\ CbRaises(cb)

\* TimerManager.reset
ResetOp(r, d, hasD, cb, rd, ws, f) ==
    LET ts == ResetState(r, d, hasD) IN
    /\ timers' = ts
    /\ UNCHANGED <<tasks, task>>
    /\ fut' = WakeFut(ws, f)
    /\ ready' = WakeReady(ws, f, rd)
    /\ waiters' = ws
    /\ IF ResetNotifies(ts, r) /\ ~CbRaises(cb)
       THEN /\ log' = [log EXCEPT ![r] =
                         <<Notification(ts[r].remaining, ts[r].is_running, ts[r].duration, 120)>>]
            /\ inbox' = Delivered(ClearInbox(r), cb, r, ts[r].remaining, ts[r].is_running)
            /\ registry' = Pruned(cb, r)
       ELSE /\ log' = [log EXCEPT ![r] = <<>>]
            /\ inbox' = ClearInbox(r)
            /\ UNCHANGED registry
    /\ lastCmd' = [lastCmd EXCEPT ![r] = Cmd("reset", r, d, hasD)]

\* TimerManager.get_state: the block takes the lock, reads the room's state
\* and returns it; nothing is written.
GetStateOp(r, rd, ws, f) ==
    /\ UNCHANGED <<timers, tasks, task, log, inbox, registry, lastCmd>>
    /\ fut' = WakeFut(ws, f)
    /\ ready' = WakeReady(ws, f, rd)
    /\ waiters' = ws

\* The dispatch of one engine call.
EngineOp(c, rd, ws, f) ==
    CASE c.op = "start"  -> StartOp(c.room, c.d, c.cb, rd, ws, f)
      [] c.op = "pause"  -> PauseOp(c.room, rd, ws, f)
      [] c.op = "resume" -> ResumeOp(c.room, c.cb, rd, ws, f)
      [] c.op = "stop"   -> StopOp(c.room, rd, ws, f) /\ UNCHANGED registry
      [] c.op = "reset"  -> ResetOp(c.room, c.d, c.hasD, c.cb, rd, ws, f)
      [] c.op = "get_state" -> GetStateOp(c.room, rd, ws, f)

\* ------------------------------------------------------ TimerManager._run
\* Positions of a task: "new" (created, not yet run), Lnn (running, about to
\* execute line nn), Wnn (queued for the lock at line nn), Cnn (suspended in
\* the callback awaited at line nn), "sleep" (line 63), "done".
Sect(pc) == CASE pc \in {"L50", "W50"} -> "L51"
              [] pc \in {"L64", "W64"} -> "L65"
              [] pc \in {"L73", "W73"} -> "L74"
              [] pc \in {"L80", "W80"} -> "L81"
WaitAt(pc) == CASE pc = "L50" -> "W50" [] pc = "L64" -> "W64"
                [] pc = "L73" -> "W73" [] pc = "L80" -> "W80"

AcquirePcs == {"L50", "L64", "L73", "L80"}
WaitPcs    == {"W50", "W64", "W73", "W80"}
CbPcs      == {"C56", "C60", "C70", "C76"}

IsHead(p) == cur = NoProc /\ ready # <<>> /\ Head(ready) = p

\* The loop runs a task for the first time.  A task cancelled before its first
\* step never enters the try block of _run.
TaskFirstStep(t) ==
    /\ IsHead(t) /\ task[t].pc = "new"
    /\ ready' = Tail(ready)
    /\ IF task[t].cancelReq
       THEN task' = [task EXCEPT ![t] = FreeTask] /\ cur' = NoProc
       ELSE task' = [task EXCEPT ![t].pc = "L50"] /\ cur' = t
    /\ UNCHANGED <<timers, tasks, lock, waiters, fut, client, conn, messages, log, lastCmd, inbox, registry>>
    /\ ev' = NoEvent
    /\ UNCHANGED bc

\* "async with self._lock" at lines 50, 64, 73 and 80.
Acquire(t) ==
    /\ cur = t /\ task[t].pc \in AcquirePcs
    /\ IF CanLock(waiters, fut)
       THEN /\ lock' = t
            /\ task' = [task EXCEPT ![t].pc = Sect(task[t].pc)]
            /\ UNCHANGED <<waiters, fut, cur>>
       ELSE /\ waiters' = Append(waiters, t)
            /\ fut' = [fut EXCEPT ![t] = "pending"]
            /\ task' = [task EXCEPT ![t].pc = WaitAt(task[t].pc)]
            /\ cur' = NoProc
            /\ UNCHANGED lock
    /\ UNCHANGED <<timers, tasks, ready, client, conn, messages, log, lastCmd, inbox, registry>>
    /\ ev' = NoEvent
    /\ UNCHANGED bc

\* A task queued for the lock runs again: it was handed the lock, or it was
\* cancelled (then the CancelledError leaves Lock.acquire, which passes the
\* wake-up on when the lock is free).
LockWake(t) ==
    /\ IsHead(t) /\ task[t].pc \in WaitPcs
    /\ LET ws == Without(waiters, t)
           f  == [fut EXCEPT ![t] = "none"]
       IN  /\ waiters' = ws
           /\ IF task[t].cancelReq
              THEN /\ fut' = IF lock = NoProc THEN WakeFut(ws, f) ELSE f
                   /\ ready' = IF lock = NoProc THEN WakeReady(ws, f, Tail(ready)) ELSE Tail(ready)
                   /\ UNCHANGED lock
                   /\ IF task[t].pc = "W80"
                      THEN task' = [task EXCEPT ![t] = FreeTask] /\ cur' = NoProc
                      ELSE /\ task' = [task EXCEPT ![t].cancelReq = FALSE,
                                          ![t].pc = IF task[t].pc = "W73" THEN "L80" ELSE "L73"]
                           /\ cur' = t
              ELSE /\ fut' = f
                   /\ ready' = Tail(ready)
                   /\ lock' = t
                   /\ task' = [task EXCEPT ![t].pc = Sect(task[t].pc)]
                   /\ cur' = t
    /\ UNCHANGED <<timers, tasks, client, conn, messages, log, lastCmd, inbox, registry>>
    /\ ev' = NoEvent
    /\ UNCHANGED bc

\* Lines 51-61, under the lock.
Check51(t) ==
    /\ cur = t /\ task[t].pc = "L51"
    /\ LET r == task[t].room
           has == r \in DOMAIN timers
       IN  IF ~has \/ ~timers[r].is_running
           THEN \* lines 53-57: the final state is sent, then break
                /\ UNCHANGED timers
                /\ IF CbRaises(task[t].cb)
                   THEN /\ lock' = NoProc
                        /\ fut' = WakeFut(waiters, fut)
                        /\ ready' = WakeReady(waiters, fut, ready)
                        /\ task' = [task EXCEPT ![t].pc = "L80"]
                        /\ UNCHANGED <<log, inbox, registry, cur>>
                   ELSE /\ Called(task[t].cb, r,
                                   Notification(IF has THEN timers[r].remaining ELSE 0,
                                                FALSE,
                                                IF has THEN timers[r].duration ELSE task[t].dur,
                                                56))
                        /\ task' = [task EXCEPT ![t].pc = "C56"]
                        /\ cur' = NoProc
                        /\ UNCHANGED <<lock, fut, ready>>
           ELSE IF timers[r].remaining <= 0
           THEN \* lines 58-61
                /\ timers' = [timers EXCEPT ![r].is_running = FALSE]
                /\ IF CbRaises(task[t].cb)
                   THEN /\ lock' = NoProc
                        /\ fut' = WakeFut(waiters, fut)
                        /\ ready' = WakeReady(waiters, fut, ready)
                        /\ task' = [task EXCEPT ![t].pc = "L80"]
                        /\ UNCHANGED <<log, inbox, registry, cur>>
                   ELSE /\ Called(task[t].cb, r, Notification(0, FALSE, timers[r].duration, 60))
                        /\ task' = [task EXCEPT ![t].pc = "C60"]
                        /\ cur' = NoProc
                        /\ UNCHANGED <<lock, fut, ready>>
           ELSE \* the lock block ends; line 63: await asyncio.sleep(1)
                /\ lock' = NoProc
                /\ fut' = WakeFut(waiters, fut)
                /\ ready' = WakeReady(waiters, fut, ready)
                /\ task' = [task EXCEPT ![t].pc = "sleep", ![t].ovl = FALSE]
                /\ cur' = NoProc
                /\ UNCHANGED <<timers, log, inbox, registry>>
    /\ UNCHANGED <<tasks, waiters, client, conn, messages, lastCmd>>
    /\ ev' = NoEvent
    /\ UNCHANGED bc

\* asyncio.sleep(1) of line 63 elapses.
TimerFires(t) ==
    /\ cur = NoProc /\ task[t].pc = "sleep" /\ ~InSeq(ready, t)
    /\ ready' = Append(ready, t)
    /\ UNCHANGED <<timers, tasks, lock, waiters, fut, task, cur, client, conn, messages, log, lastCmd, inbox, registry>>
    /\ ev' = NoEvent
    /\ UNCHANGED bc

\* The task resumes after line 63, or the CancelledError is raised there.
SleepDone(t) ==
    /\ IsHead(t) /\ task[t].pc = "sleep"
    /\ ready' = Tail(ready)
    /\ task' = [task EXCEPT ![t].cancelReq = FALSE,
                            ![t].pc = IF task[t].cancelReq THEN "L73" ELSE "L64"]
    /\ cur' = t
    /\ UNCHANGED <<timers, tasks, lock, waiters, fut, client, conn, messages, log, lastCmd, inbox, registry>>
    /\ ev' = NoEvent
    /\ UNCHANGED bc

\* mutant: the wake-up check that forgets the is_running flag
MustBreak65_IgnoresFlag(r) == r \notin DOMAIN timers

\* Line 66: the task leaves the loop without state or when not running.
MustBreak65(r) == r \notin DOMAIN timers \/ ~timers[r].is_running

\* mutant: the tick that forgets to decrement
TickState_NoDecrement(r) == [timers EXCEPT ![r].remaining = Max(0, timers[r].remaining)]

\* mutant: the tick without the floor of max(0, ...)
TickState_NoFloor(r) == [timers EXCEPT ![r].remaining = timers[r].remaining - 1]

\* Line 68 on the state of room r.
TickState(r) == [timers EXCEPT ![r].remaining = Max(0, timers[r].remaining - 1)]

\* The tasks after task t has run line 68: every other task of the room that
\* is in the sleep of line 63, or has left it and waits at line 64, has had a
\* tick of its room fall into its current cycle.
Ticked(tk, t) ==
    [u \in TaskIds |->
        IF u # t /\ tk[u].room = tk[t].room /\ tk[u].pc \in {"sleep", "W64"}
        THEN [tk[u] EXCEPT !.ovl = TRUE]
        ELSE tk[u]]

\* Lines 65-70, under the lock.
Tick65(t) ==
    /\ cur = t /\ task[t].pc = "L65"
    /\ LET r == task[t].room IN
       IF MustBreak65(r)
       THEN \* line 67: break
            /\ lock' = NoProc
            /\ fut' = WakeFut(waiters, fut)
            /\ ready' = WakeReady(waiters, fut, ready)
            /\ task' = [task EXCEPT ![t].pc = "L80"]
            /\ UNCHANGED <<timers, log, inbox, registry, cur>>
       ELSE /\ timers' = TickState(r)
            /\ IF CbRaises(task[t].cb)
               THEN /\ lock' = NoProc
                    /\ fut' = WakeFut(waiters, fut)
                    /\ ready' = WakeReady(waiters, fut, ready)
                    /\ task' = [Ticked(task, t) EXCEPT ![t].pc = "L80"]
                    /\ UNCHANGED <<log, inbox, registry, cur>>
               ELSE /\ Called(task[t].cb, r, Notification(timers'[r].remaining, TRUE,
                                                          timers'[r].duration, 70))
                    /\ task' = [Ticked(task, t) EXCEPT ![t].pc = "C70"]
                    /\ cur' = NoProc
                    /\ UNCHANGED <<lock, fut, ready>>
    /\ UNCHANGED <<tasks, waiters, client, conn, messages, lastCmd>>
    /\ ev' = NoEvent
    /\ UNCHANGED bc

\* The awaited callback finishes its I/O.
CbIoDone(t) ==
    /\ cur = NoProc /\ task[t].pc \in CbPcs /\ ~InSeq(ready, t)
    /\ ready' = Append(ready, t)
    /\ UNCHANGED <<timers, tasks, lock, waiters, fut, task, cur, client, conn, messages, log, lastCmd, inbox, registry>>
    /\ ev' = NoEvent
    /\ UNCHANGED bc

\* The task resumes after the callback of line 56, 60, 70 or 76.
CbReturn(t) ==
    /\ IsHead(t) /\ task[t].pc \in CbPcs
    /\ cur' = t
    /\ task' = [task EXCEPT ![t].cancelReq = FALSE,
                            ![t].pc = CASE task[t].pc = "C76" -> "L80"
                                        [] task[t].cancelReq -> "L73"
                                        [] task[t].pc = "C70" -> "L50"
                                        [] OTHER -> "L80"]
    /\ IF task[t].pc = "C76"
       THEN /\ ready' = Tail(ready)
            /\ UNCHANGED <<lock, fut>>
       ELSE /\ lock' = NoProc
            /\ fut' = WakeFut(waiters, fut)
            /\ ready' = WakeReady(waiters, fut, Tail(ready))
    /\ UNCHANGED <<timers, tasks, waiters, client, conn, messages, log, lastCmd, inbox, registry>>
    /\ ev' = NoEvent
    /\ UNCHANGED bc

\* Lines 73-77: the handler of CancelledError.
Except74(t) ==
    /\ cur = t /\ task[t].pc = "L74"
    /\ lock' = NoProc
    /\ fut' = WakeFut(waiters, fut)
    /\ ready' = WakeReady(waiters, fut, ready)
    /\ LET r == task[t].room IN
       IF r \in DOMAIN timers /\ ~CbRaises(task[t].cb)
       THEN /\ Called(task[t].cb, r, Notification(timers[r].remaining, timers[r].is_running,
                                                  timers[r].duration, 76))
            /\ task' = [task EXCEPT ![t].pc = "C76", ![t].post = @ + 1]
            /\ cur' = NoProc
       ELSE /\ task' = [task EXCEPT ![t].pc = "L80"]
            /\ UNCHANGED <<log, inbox, registry, cur>>
    /\ UNCHANGED <<timers, tasks, waiters, client, conn, messages, lastCmd>>
    /\ ev' = NoEvent
    /\ UNCHANGED bc

\* mutant: a finally block that leaves the task map as it is
FinallyPop_Keeps(t) == tasks

\* mutant: a finally block that empties the task map
FinallyPop_Clears(t) == EmptyDict

\* The entry of tasks that the finally block of _run removes.
FinallyPop(t) == Pop(tasks, task[t].room)

\* Lines 78-81: the finally block, under the lock; the task ends.
Finally81(t) ==
    /\ cur = t /\ task[t].pc = "L81"
    /\ tasks' = FinallyPop(t)
    /\ lock' = NoProc
    /\ fut' = WakeFut(waiters, fut)
    /\ ready' = WakeReady(waiters, fut, ready)
    /\ task' = [task EXCEPT ![t] = FreeTask]
    /\ cur' = NoProc
    /\ UNCHANGED <<timers, waiters, client, conn, messages, log, lastCmd, inbox, registry>>
    /\ ev' = NoEvent
    /\ UNCHANGED bc

\* ------------------------------------------------- callers of the engine
\* A caller is a coroutine that awaits one operation of the engine at a time:
\* "idle", "call" (made runnable, about to enter the operation), "wait"
\* (queued for the lock).
Call(op, r, d, hasD, cb) == [op |-> op, room |-> r, d |-> d, hasD |-> hasD, cb |-> cb]

\* The step of a direct caller that ran the operation call.
CallEvent(c, call) ==
    [conn |-> c, kind |-> "call", auth |-> NoAuth, payload |-> NoPayload, sent |-> {},
     call |-> call]

EngineCalls(cb) ==
    {Call("start", r, d, TRUE, cb) : r \in Rooms, d \in Durations}
    \cup {Call("reset", r, d, TRUE, cb) : r \in Rooms, d \in Durations}
    \cup {Call(op, r, 0, FALSE, cb) : op \in {"pause", "resume", "stop", "reset"}, r \in Rooms}

\* A caller is made runnable (its own await completed).
ClientCall(c) ==
    /\ cur = NoProc /\ client[c] = "idle"
    /\ client' = [client EXCEPT ![c] = "call"]
    /\ ready' = Append(ready, c)
    /\ UNCHANGED <<timers, tasks, lock, waiters, fut, task, cur, conn, messages, log, lastCmd, inbox, registry>>
    /\ ev' = NoEvent
    /\ UNCHANGED bc

\* The caller enters an operation: it takes the lock and runs the block.
ClientRun(c, call) ==
    /\ IsHead(c) /\ client[c] = "call"
    /\ CanLock(waiters, fut)
    /\ EngineOp(call, Tail(ready), waiters, fut)
    /\ client' = [client EXCEPT ![c] = "idle"]
    /\ UNCHANGED <<lock, cur, conn, messages>>
    /\ ev' = CallEvent(c, call)
    /\ UNCHANGED bc

\* The caller enters an operation and queues for the lock.
ClientWait(c) ==
    /\ IsHead(c) /\ client[c] = "call"
    /\ ~CanLock(waiters, fut)
    /\ waiters' = Append(waiters, c)
    /\ fut' = [fut EXCEPT ![c] = "pending"]
    /\ client' = [client EXCEPT ![c] = "wait"]
    /\ ready' = Tail(ready)
    /\ UNCHANGED <<timers, tasks, lock, task, cur, conn, messages, log, lastCmd, inbox, registry>>
    /\ ev' = NoEvent
    /\ UNCHANGED bc

\* A queued caller is handed the lock and runs the block.
ClientLockWake(c, call) ==
    /\ IsHead(c) /\ client[c] = "wait"
    /\ EngineOp(call, Tail(ready), Without(waiters, c), [fut EXCEPT ![c] = "none"])
    /\ client' = [client EXCEPT ![c] = "idle"]
    /\ UNCHANGED <<lock, cur, conn, messages>>
    /\ ev' = CallEvent(c, call)
    /\ UNCHANGED bc

\* ------------------------------------------------- websocket_endpoint
\* Positions of a connection handler: "none" (no connection), "hs" (request
\* arrived, lines 27-77 to run), "replay" (history fetched, lines 79-94 to
\* run), "active" (awaiting receive_json, line 132), "persisted" (message
\* stored, awaiting get_user_by_id of line 192), "leaving" (deregistered,
\* awaiting get_user_by_id of line 220), "closed", "crashed" (an exception
\* left the handler).

\* mutant: a handshake without the participant lookup
HandshakePasses_NoParticipantCheck(a) ==
    /\ a.token # "missing"
    /\ a.token = "valid"
    /\ a.user
    /\ a.room

\* Lines 27-72: every check that closes the socket with code 1008.
HandshakePasses(a) ==
    /\ a.token # "missing"
    /\ a.token = "valid"
    /\ a.user
    /\ a.room
    /\ a.part

\* msg is the message the handler stored last (new_message of line 183).
NoConn == [pc |-> "none", room |-> 0, code |-> 0, hist |-> <<>>, msg |-> 0]

\* mutant: a fetch of the whole history
Recent_NoLimit(q) == [i \in 1..Len(q) |-> q[Len(q) + 1 - i]]

\* crud.get_recent_messages: the newest HistoryLimit messages, newest first.
Reverse(q) == [i \in 1..Len(q) |-> q[Len(q) + 1 - i]]
Recent(q) == LET n == IF Len(q) <= HistoryLimit THEN Len(q) ELSE HistoryLimit
             IN  SubSeq(Reverse(q), 1, n)

TimerEvents == {"start_timer", "pause_timer", "resume_timer", "reset_timer"}

\* A start_timer without duration would start the default of line 146; the
\* inputs drawn here always carry a duration for start_timer.
\* The durations a client may send: any integer, the negative ones included.
WsDurations == Durations \cup {-1}

InboundSet ==
    {Inbound("object", "timer", Content("object", "start_timer", TRUE, d)) : d \in WsDurations}
    \cup {Inbound("object", "timer", Content("object", "reset_timer", TRUE, d)) : d \in WsDurations}
    \cup {Inbound("object", "timer", Content("object", e, FALSE, 0)) :
            e \in {"pause_timer", "resume_timer", "reset_timer", "bogus"}}
    \cup {Inbound("object", "timer", NoContent), Inbound("object", "timer", StrContent)}
    \cup {Inbound("object", "message", StrContent), Inbound("object", "message", NoContent),
          Inbound("object", "bogus", StrContent), Inbound("object", "absent", StrContent)}
    \cup {Inbound("other", "absent", NoContent)}

\* Lines 138-140: data.get and content.get need dicts; content defaults to {}.
GetRaises(p) ==
    \/ p.json # "object"
    \/ p.type = "timer" /\ p.content.kind \notin {"object", "absent"}

\* Line 140: the event of a timer payload.
EventOf(p) == IF p.content.kind = "object" THEN p.content.event ELSE "absent"

\* schemas.WSMessageIn: type is "message" or "timer", content is required.
ValidMessageIn(p) == p.type \in {"message", "timer"} /\ p.content.kind # "absent"

\* The engine call a timer payload makes (lines 143-163).
CallOf(p, r) ==
    CASE EventOf(p) = "start_timer" ->
             Call("start", r, IF p.content.hasD THEN p.content.d ELSE DefaultDuration,
                  TRUE, "timer_broadcast")
      [] EventOf(p) = "pause_timer"  -> Call("pause", r, 0, FALSE, "timer_broadcast")
      [] EventOf(p) = "resume_timer" -> Call("resume", r, 0, FALSE, "timer_broadcast")
      [] EventOf(p) = "reset_timer"  ->
             Call("reset", r, p.content.d, p.content.hasD, "timer_broadcast")

\* mutant: a handler that takes every engine call to succeed
CallRaises_Never(c) == FALSE

\* An engine call that raises into the handler's "except Exception".
CallRaises(c) == c.op = "reset" /\ ResetRaises(c.room, c.d, c.hasD, c.cb)

\* mutant: an error that is swallowed
ErrorNotice_Silent(c) == {}

\* websocket.send_json({"error": ...}) of lines 166, 169, 180 and 189: the
\* notice goes to the handler's own socket.
ErrorNotice(c) == {<<c, "error", 0>>}

Idle(c) == conn[c].pc \in {"none", "closed", "crashed"}
             /\ \A r \in Rooms : c \notin Registered(r)

\* A client opens a connection to a room.
ConnArrive(c, r) ==
    /\ cur = NoProc /\ Idle(c)
    /\ conn' = [conn EXCEPT ![c] = [NoConn EXCEPT !.pc = "hs", !.room = r]]
    /\ ready' = Append(ready, c)
    /\ ev' = NoEvent
    /\ UNCHANGED <<timers, tasks, lock, waiters, fut, task, cur, client,
                   registry, messages, inbox, log, lastCmd>>
    /\ UNCHANGED bc

\* Lines 27-77: the checks, then the fetch of the history.
ConnHandshake(c, a) ==
    /\ IsHead(c) /\ conn[c].pc = "hs"
    /\ ready' = Tail(ready)
    /\ conn' = IF HandshakePasses(a)
               THEN [conn EXCEPT ![c].pc = "replay",
                                 ![c].hist = Recent(messages[conn[c].room])]
               ELSE [conn EXCEPT ![c].pc = "closed", ![c].code = PolicyViolation]
    /\ ev' = Event(c, "handshake", a, NoPayload, {})
    /\ UNCHANGED <<timers, tasks, lock, waiters, fut, task, cur, client,
                   registry, messages, inbox, log, lastCmd>>
    /\ UNCHANGED bc

\* The await a handler is suspended in completes: the sends of the replay, an
\* inbound frame or the disconnect, a database lookup.
ConnWake(c) ==
    /\ cur = NoProc /\ ~InSeq(ready, c)
    /\ conn[c].pc \in {"replay", "active", "persisted", "leaving"}
    /\ ready' = Append(ready, c)
    /\ ev' = NoEvent
    /\ UNCHANGED <<timers, tasks, lock, waiters, fut, task, cur, client,
                   conn, registry, messages, inbox, log, lastCmd>>
    /\ UNCHANGED bc

\* ConnectionManager.connect
Connect(reg, r, c) == [reg EXCEPT ![r] = Append(@, c)]

\* mutant: a deregistration that leaves the list as it was
Disconnect_Keeps(reg, r, c) == reg

\* ConnectionManager.disconnect
Disconnect(reg, r, c) == [reg EXCEPT ![r] = Without(@, c)]

\* ConnectionManager.broadcast: who receives, and the list it leaves.
Recipients(reg, r) == {reg[r][i] : i \in {j \in 1..Len(reg[r]) : ~Faulted(reg[r][j])}}
AfterBroadcast(reg, r) == [reg EXCEPT ![r] = SelectSeq(@, LAMBDA c : ~Faulted(c))]

\* Lines 79-94: the history is sent oldest first, then the connection joins.
ConnRegister(c) ==
    /\ IsHead(c) /\ conn[c].pc = "replay"
    /\ ready' = Tail(ready)
    /\ registry' = Connect(registry, conn[c].room, c)
    /\ conn' = [conn EXCEPT ![c].pc = "active"]
    /\ ev' = Event(c, "register", NoAuth, NoPayload,
                   {<<c, "previous_message", Reverse(conn[c].hist)[i]>> : i \in 1..Len(conn[c].hist)})
    /\ UNCHANGED <<timers, tasks, lock, waiters, fut, task, cur, client,
                   messages, inbox, log, lastCmd>>
    /\ UNCHANGED bc

\* Lines 132-170: one received payload of the timer flow.
ConnTimer(c, p) ==
    /\ IsHead(c) /\ conn[c].pc = "active"
    /\ p.json = "object" /\ p.type = "timer"
    /\ IF GetRaises(p)
       THEN \* line 140 raises outside the try block
            /\ conn' = [conn EXCEPT ![c].pc = "crashed"]
            /\ ev' = Event(c, "payload", NoAuth, p, {})
            /\ ready' = Tail(ready)
            /\ UNCHANGED <<timers, tasks, waiters, fut, task, registry, inbox, log, lastCmd>>
       ELSE IF EventOf(p) \in TimerEvents
       THEN LET call == CallOf(p, conn[c].room) IN
            /\ CanLock(waiters, fut)
            /\ EngineOp(call, Tail(ready), waiters, fut)
            /\ ev' = Event(c, "payload", NoAuth, p, IF CallRaises(call) THEN ErrorNotice(c) ELSE {})
            /\ UNCHANGED conn
       ELSE \* line 166
            /\ ev' = Event(c, "payload", NoAuth, p, ErrorNotice(c))
            /\ ready' = Tail(ready)
            /\ UNCHANGED <<timers, tasks, waiters, fut, task, conn, registry, inbox, log, lastCmd>>
    /\ UNCHANGED <<lock, cur, client, messages>>
    /\ UNCHANGED bc

\* Lines 132-190: one received payload of the chat flow; ok is whether the
\* insert of crud.create_message_for_websocket succeeds.
ConnChat(c, p, ok) ==
    /\ IsHead(c) /\ conn[c].pc = "active"
    /\ ~(p.json = "object" /\ p.type = "timer")
    /\ ready' = Tail(ready)
    /\ LET r == conn[c].room IN
       IF GetRaises(p)
       THEN \* line 138 raises
            /\ conn' = [conn EXCEPT ![c].pc = "crashed"]
            /\ ev' = Event(c, "payload", NoAuth, p, {})
            /\ UNCHANGED messages
       ELSE IF ~ValidMessageIn(p) \/ ~ok
       THEN \* lines 180 and 190
            /\ ev' = Event(c, "payload", NoAuth, p, ErrorNotice(c))
            /\ UNCHANGED <<conn, messages>>
       ELSE /\ Len(messages[r]) < MaxMessages
            /\ messages' = [messages EXCEPT ![r] = Append(@, Len(@) + 1)]
            /\ conn' = [conn EXCEPT ![c].pc = "persisted", ![c].msg = Len(messages[r]) + 1]
            /\ ev' = Event(c, "payload", NoAuth, p, {})
    /\ UNCHANGED <<timers, tasks, lock, waiters, fut, task, cur, client,
                   registry, inbox, log, lastCmd>>
    /\ UNCHANGED bc

\* mutant: a message_out without its sender
NewMessage_NoSender(id, user) == [id |-> id, user_id |-> 0]

\* Lines 194-204: message_out carries the stored message and its sender; a
\* connection stands for its user.
NewMessage(id, user) == [id |-> id, user_id |-> user]

\* Lines 194-212: the stored message is broadcast to the room.
ConnBroadcast(c) ==
    /\ IsHead(c) /\ conn[c].pc = "persisted"
    /\ ready' = Tail(ready)
    /\ LET r == conn[c].room IN
       /\ ev' = Event(c, "broadcast", NoAuth, NoPayload,
                      {<<x, "new_message", NewMessage(conn[c].msg, c)>> : x \in Recipients(registry, r)})
       /\ registry' = AfterBroadcast(registry, r)
    /\ conn' = [conn EXCEPT ![c].pc = "active", ![c].msg = 0]
    /\ UNCHANGED <<timers, tasks, lock, waiters, fut, task, cur, client,
                   messages, inbox, log, lastCmd>>
    /\ UNCHANGED bc

\* Lines 214-218: WebSocketDisconnect leaves receive_json; the connection is
\* removed and the room's timer is stopped when the list is empty.
ConnDisconnect(c) ==
    /\ IsHead(c) /\ conn[c].pc = "active"
    /\ LET r   == conn[c].room
           reg == Disconnect(registry, r, c)
       IN  /\ registry' = reg
           /\ IF reg[r] = <<>>
              THEN /\ CanLock(waiters, fut)
                   /\ StopOp(r, Tail(ready), waiters, fut)
              ELSE /\ ready' = Tail(ready)
                   /\ UNCHANGED <<timers, tasks, waiters, fut, task, inbox, log, lastCmd>>
    /\ conn' = [conn EXCEPT ![c].pc = "leaving"]
    /\ ev' = Event(c, "disconnect", NoAuth, NoPayload, {})
    /\ UNCHANGED <<lock, cur, client, messages>>
    /\ UNCHANGED bc

\* Lines 220-231: user_left goes to the connections that remain.
ConnLeft(c) ==
    /\ IsHead(c) /\ conn[c].pc = "leaving"
    /\ ready' = Tail(ready)
    /\ LET r == conn[c].room IN
       /\ ev' = Event(c, "left", NoAuth, NoPayload, {<<x, "user_left", c>> : x \in Recipients(registry, r)})
       /\ registry' = AfterBroadcast(registry, r)
    /\ conn' = [conn EXCEPT ![c].pc = "closed"]
    /\ UNCHANGED <<timers, tasks, lock, waiters, fut, task, cur, client,
                   messages, inbox, log, lastCmd>>
    /\ UNCHANGED bc

\* ---------------------------------------------------------- specification
Procs == TaskIds \cup ClientIds \cup ConnIds

Init ==
    /\ timers = EmptyDict
    /\ tasks = EmptyDict
    /\ lock = NoProc
    /\ waiters = <<>>
    /\ fut = [p \in Procs |-> "none"]
    /\ task = [t \in TaskIds |-> FreeTask]
    /\ ready = <<>>
    /\ cur = NoProc
    /\ client = [c \in ClientIds |-> "idle"]
    /\ conn = [c \in ConnIds |-> NoConn]
    /\ registry = [r \in Rooms |-> <<>>]
    /\ messages = [r \in Rooms |-> <<>>]
    /\ inbox = [c \in ConnIds |-> <<>>]
    /\ ev = NoEvent
    /\ log = [r \in Rooms |-> <<>>]
    /\ lastCmd = [r \in Rooms |-> NoCmd]
    /\ bc = NoFrame

TaskStep(t) ==
    \/ TaskFirstStep(t)
    \/ Acquire(t)
    \/ LockWake(t)
    \/ Check51(t)
    \/ TimerFires(t)
    \/ SleepDone(t)
    \/ Tick65(t)
    \/ CbIoDone(t)
    \/ CbReturn(t)
    \/ Except74(t)
    \/ Finally81(t)

Next ==
    \/ \E t \in TaskIds : TaskStep(t)
    \/ \E c \in ClientIds : ClientCall(c)
    \/ \E c \in ClientIds : \E call \in EngineCalls("sink") : ClientRun(c, call)
    \/ \E c \in ClientIds : ClientWait(c)
    \/ \E c \in ClientIds : \E call \in EngineCalls("sink") : ClientLockWake(c, call)

Spec == Init /\ [][Next]_vars

\* The websocket flow: the engine is driven by connection handlers, which
\* hand it timer_broadcast.
NextWS ==
    \/ \E t \in TaskIds : TaskFirstStep(t)
    \/ \E t \in TaskIds : Acquire(t)
    \/ \E t \in TaskIds : Check51(t)
    \/ \E t \in TaskIds : TimerFires(t)
    \/ \E t \in TaskIds : SleepDone(t)
    \/ \E t \in TaskIds : Tick65(t)
    \/ \E t \in TaskIds : Except74(t)
    \/ \E t \in TaskIds : Finally81(t)
    \/ \E c \in ConnIds : \E r \in Rooms : ConnArrive(c, r)
    \/ \E c \in ConnIds : \E a \in AuthCases : ConnHandshake(c, a)
    \/ \E c \in ConnIds : ConnWake(c)
    \/ \E c \in ConnIds : ConnRegister(c)
    \/ \E c \in ConnIds : \E p \in InboundSet : ConnTimer(c, p)
    \/ \E c \in ConnIds : \E p \in InboundSet : \E ok \in BOOLEAN : ConnChat(c, p, ok)
    \/ \E c \in ConnIds : ConnBroadcast(c)
    \/ \E c \in ConnIds : ConnDisconnect(c)
    \/ \E c \in ConnIds : ConnLeft(c)

SpecWS == Init /\ [][NextWS]_vars

\* ------------------------------------------------- callers that race
\* Several coroutines call the engine at once, as the handlers of several
\* connections do: a second call can be queued ahead of the task the first
\* one created or cancelled.
RaceCalls ==
    {c \in EngineCalls("sink") : c.op \in {"start", "stop"} /\ (c.hasD => c.d = 1)}

InitRace ==
    /\ timers = EmptyDict
    /\ tasks = EmptyDict
    /\ lock = NoProc
    /\ waiters = <<>>
    /\ fut = [p \in TaskIds \cup Callers |-> "none"]
    /\ task = [t \in TaskIds |-> FreeTask]
    /\ ready = <<>>
    /\ cur = NoProc
    /\ client = [c \in Callers |-> "idle"]
    /\ conn = [c \in ConnIds |-> NoConn]
    /\ registry = [r \in Rooms |-> <<>>]
    /\ messages = [r \in Rooms |-> <<>>]
    /\ inbox = [c \in ConnIds |-> <<>>]
    /\ ev = NoEvent
    /\ log = [r \in Rooms |-> <<>>]
    /\ lastCmd = [r \in Rooms |-> NoCmd]
    /\ bc = NoFrame

NextRace ==
    \/ \E t \in TaskIds : TaskStep(t)
    \/ \E c \in Callers : ClientCall(c)
    \/ \E c \in Callers : \E call \in RaceCalls : ClientRun(c, call)
    \/ \E c \in Callers : ClientWait(c)
    \/ \E c \in Callers : \E call \in RaceCalls : ClientLockWake(c, call)

SpecRace == InitRace /\ [][NextRace]_vars

\* ------------------------------------------------- several rooms
\* One engine serves several rooms: one caller issues operations on any of
\* them, and starts each room with a duration of its own.
IsoCalls ==
    {Call("start", r, r, TRUE, "sink") : r \in IsoRooms}
    \cup {Call(op, r, 0, FALSE, "sink") : op \in {"pause", "resume", "stop", "reset"}, r \in IsoRooms}

InitIso ==
    /\ timers = EmptyDict
    /\ tasks = EmptyDict
    /\ lock = NoProc
    /\ waiters = <<>>
    /\ fut = [p \in Procs |-> "none"]
    /\ task = [t \in TaskIds |-> FreeTask]
    /\ ready = <<>>
    /\ cur = NoProc
    /\ client = [c \in ClientIds |-> "idle"]
    /\ conn = [c \in ConnIds |-> NoConn]
    /\ registry = [r \in IsoRooms |-> <<>>]
    /\ messages = [r \in IsoRooms |-> <<>>]
    /\ inbox = [c \in ConnIds |-> <<>>]
    /\ ev = NoEvent
    /\ log = [r \in IsoRooms |-> <<>>]
    /\ lastCmd = [r \in IsoRooms |-> NoCmd]
    /\ bc = NoFrame

NextIso ==
    \/ \E t \in TaskIds : TaskStep(t)
    \/ \E c \in ClientIds : ClientCall(c)
    \/ \E c \in ClientIds : \E call \in IsoCalls : ClientRun(c, call)
    \/ \E c \in ClientIds : ClientWait(c)
    \/ \E c \in ClientIds : \E call \in IsoCalls : ClientLockWake(c, call)

SpecIso == InitIso /\ [][NextIso]_vars

\* ------------------------------------------- countdowns left to themselves
\* Each room is started at most once and no other operation is called, so
\* that every countdown runs without interruption.
Unstarted(r) == r \notin DOMAIN timers /\ lastCmd[r].op = "none"

CountdownCalls == {Call("start", r, d, TRUE, "sink") : r \in IsoRooms, d \in Durations}

\* A caller enters start while a room is left to start and no other call is
\* under way.
CountdownCall(c) ==
    /\ \E r \in IsoRooms : Unstarted(r)
    /\ \A o \in ClientIds : client[o] = "idle"
    /\ ClientCall(c)

CountdownRun(c, call) == Unstarted(call.room) /\ ClientRun(c, call)

CountdownLockWake(c, call) == Unstarted(call.room) /\ ClientLockWake(c, call)

\* The steps of a caller that the event loop runs once they are scheduled.
CallerStep(c) ==
    \/ \E call \in CountdownCalls : CountdownRun(c, call)
    \/ ClientWait(c)
    \/ \E call \in CountdownCalls : CountdownLockWake(c, call)

\* The steps of a task of _run that no cancel() reaches.
CountdownStep(t) ==
    \/ TaskFirstStep(t)
    \/ Acquire(t)
    \/ LockWake(t)
    \/ Check51(t)
    \/ TimerFires(t)
    \/ SleepDone(t)
    \/ Tick65(t)
    \/ CbIoDone(t)
    \/ CbReturn(t)
    \/ Finally81(t)

NextLive ==
    \/ \E t \in TaskIds : CountdownStep(t)
    \/ \E c \in ClientIds : CountdownCall(c)
    \/ \E c \in ClientIds : CallerStep(c)

\* The event loop runs every scheduled callback, asyncio.sleep(1) ends, and
\* the awaited callback returns.
FairLive ==
    /\ \A t \in TaskIds : WF_vars(CountdownStep(t))
    /\ \A c \in ClientIds : WF_vars(CallerStep(c))

SpecLive == InitIso /\ [][NextLive]_vars /\ FairLive

\* ------------------------------------------------ callers under fairness
\* One caller issues every operation on the first room while the second room
\* is started and stopped.
FairCalls ==
    {Call("start", r, 1, TRUE, "sink") : r \in IsoRooms}
    \cup {Call(op, r, 0, FALSE, "sink") : op \in {"stop", "get_state"}, r \in IsoRooms}
    \cup {Call(op, 1, 0, FALSE, "sink") : op \in {"pause", "resume", "reset"}}

\* The steps of a caller that the event loop runs once they are scheduled.
FairCallerStep(c) ==
    \/ \E call \in FairCalls : ClientRun(c, call)
    \/ ClientWait(c)
    \/ \E call \in FairCalls : ClientLockWake(c, call)

NextFair ==
    \/ \E t \in TaskIds : TaskStep(t)
    \/ \E c \in ClientIds : ClientCall(c)
    \/ \E c \in ClientIds : FairCallerStep(c)

\* The event loop runs every scheduled callback, asyncio.sleep(1) ends, and
\* the awaited callback returns.
FairEngine ==
    /\ \A t \in TaskIds : WF_vars(TaskStep(t))
    /\ \A c \in ClientIds : WF_vars(FairCallerStep(c))

SpecFair == InitIso /\ [][NextFair]_vars /\ FairEngine

\* ------------------------------------------- timer_broadcast called alone
\* The lists of distinct elements of S.
DistinctSeqs(S) ==
    {s \in UNION {[1..n -> S] : n \in 0..Cardinality(S)} :
        \A i, j \in DOMAIN s : i # j => s[i] # s[j]}

RECURSIVE DisconnectAll(_, _, _)
\* lines 124-125: manager.disconnect(room_id, conn) for each noted connection
DisconnectAll(reg, r, ds) ==
    IF ds = <<>> THEN reg
    ELSE DisconnectAll(Disconnect(reg, r, Head(ds)), r, Tail(ds))

\* A room's list of registered sockets, some of them closed because their
\* handler died before it deregistered; nothing else is going on.
InitBC ==
    /\ timers = EmptyDict
    /\ tasks = EmptyDict
    /\ lock = NoProc
    /\ waiters = <<>>
    /\ fut = [p \in Procs |-> "none"]
    /\ task = [t \in TaskIds |-> FreeTask]
    /\ ready = <<>>
    /\ cur = NoProc
    /\ client = [c \in ClientIds |-> "idle"]
    /\ registry \in [Rooms -> DistinctSeqs(Sockets)]
    /\ \A c \in Sockets : Cardinality({r \in Rooms : InSeq(registry[r], c)}) <= 1
    /\ \E closed \in SUBSET Sockets :
          conn = [c \in Sockets |->
                    [NoConn EXCEPT !.pc = IF c \in closed THEN "crashed" ELSE "active",
                                   !.room = IF \E r \in Rooms : InSeq(registry[r], c)
                                            THEN CHOOSE r \in Rooms : InSeq(registry[r], c)
                                            ELSE 0]]
    /\ messages = [r \in Rooms |-> <<>>]
    /\ inbox = [c \in Sockets |-> <<>>]
    /\ ev = NoEvent
    /\ log = [r \in Rooms |-> <<>>]
    /\ lastCmd = [r \in Rooms |-> NoCmd]
    /\ bc = [NoFrame EXCEPT !.pc = "idle"]

\* lines 98-105: the call with three arguments enters the body; connections
\* is the room's list.
BcCall(r, remaining, is_running) ==
    /\ bc.pc = "idle"
    /\ bc' = [pc |-> "for", room |-> r, remaining |-> remaining,
              is_running |-> is_running, i |-> 1, conn |-> 0, disconnected |-> <<>>,
              subs |-> registry[r],
              stale |-> {c \in Registered(r) : Faulted(c)}]
    /\ UNCHANGED <<timers, tasks, lock, waiters, fut, task, ready, cur, client,
                   conn, registry, messages, inbox, ev, log, lastCmd>>

\* lines 107-120: the next connection of the list; send_json on a closed
\* socket raises, on an open one the event goes out and the call awaits.
BcSend ==
    /\ bc.pc = "for"
    /\ bc.i <= Len(registry[bc.room])
    /\ LET c == registry[bc.room][bc.i] IN
         IF Faulted(c)
         THEN /\ bc' = OnSendError([bc EXCEPT !.conn = c], c)
              /\ UNCHANGED inbox
         ELSE /\ inbox' = [inbox EXCEPT ![c] = Append(@, TimerUpdate(bc.remaining, bc.is_running))]
              /\ bc' = [bc EXCEPT !.pc = "send", !.conn = c]
    /\ UNCHANGED <<timers, tasks, lock, waiters, fut, task, ready, cur, client,
                   conn, registry, messages, ev, log, lastCmd>>

\* line 109: the awaited send_json returns.
BcSendDone ==
    /\ bc.pc = "send"
    /\ bc' = [bc EXCEPT !.pc = "for", !.i = @ + 1]
    /\ UNCHANGED <<timers, tasks, lock, waiters, fut, task, ready, cur, client,
                   conn, registry, messages, inbox, ev, log, lastCmd>>

\* lines 109, 118-120: the socket was closed under the awaited send_json,
\* which raises.
BcSendFails ==
    /\ bc.pc = "send"
    /\ Faulted(bc.conn)
    /\ bc' = OnSendError(bc, bc.conn)
    /\ UNCHANGED <<timers, tasks, lock, waiters, fut, task, ready, cur, client,
                   conn, registry, messages, inbox, ev, log, lastCmd>>

\* lines 123-125: the list is exhausted; the noted connections are removed
\* and the call returns.
BcPrune ==
    /\ bc.pc = "for"
    /\ bc.i > Len(registry[bc.room])
    /\ registry' = DisconnectAll(registry, bc.room, bc.disconnected)
    /\ bc' = [bc EXCEPT !.pc = "returned"]
    /\ UNCHANGED <<timers, tasks, lock, waiters, fut, task, ready, cur, client,
                   conn, messages, inbox, ev, log, lastCmd>>

\* While the call is under way the handler of a connection dies on a payload
\* (line 140) and the server closes its socket; the connection stays listed.
HandlerCrashes(c) ==
    /\ bc.pc \in {"for", "send"}
    /\ conn[c].pc = "active"
    /\ conn' = [conn EXCEPT ![c].pc = "crashed"]
    /\ UNCHANGED <<timers, tasks, lock, waiters, fut, task, ready, cur, client,
                   registry, messages, inbox, ev, log, lastCmd, bc>>

NextBC ==
    \/ \E r \in Rooms : \E n \in Durations : \E run \in BOOLEAN : BcCall(r, n, run)
    \/ BcSend
    \/ BcSendDone
    \/ BcSendFails
    \/ BcPrune
    \/ \E c \in Sockets : HandlerCrashes(c)

SpecBC == InitBC /\ [][NextBC]_vars

\* While the call is suspended in a send, the handler of another connection
\* of the room gets WebSocketDisconnect and deregisters (lines 214-216).  The
\* callback iterates the list that manager.active_connections holds for the
\* room (line 105 takes no copy), so the removal shifts the elements behind
\* the departed one under the iteration.
HandlerLeaves(c) ==
    /\ bc.pc = "send"
    /\ conn[c].pc = "active"
    /\ c \in Registered(bc.room)
    /\ c # bc.conn
    /\ registry' = Disconnect(registry, bc.room, c)
    /\ conn' = [conn EXCEPT ![c].pc = "closed"]
    /\ UNCHANGED <<timers, tasks, lock, waiters, fut, task, ready, cur, client,
                   messages, inbox, ev, log, lastCmd, bc>>

\* While the call is suspended in a send, a handler finishes its replay and
\* registers its connection (line 94).
HandlerJoins(c) ==
    /\ bc.pc = "send"
    /\ conn[c].pc = "active"
    /\ \A r \in Rooms : c \notin Registered(r)
    /\ registry' = Connect(registry, bc.room, c)
    /\ conn' = [conn EXCEPT ![c].room = bc.room]
    /\ UNCHANGED <<timers, tasks, lock, waiters, fut, task, ready, cur, client,
                   messages, inbox, ev, log, lastCmd, bc>>

NextFanOut ==
    \/ \E r \in Rooms : \E n \in Durations : \E run \in BOOLEAN : BcCall(r, n, run)
    \/ BcSend
    \/ BcSendDone
    \/ BcSendFails
    \/ BcPrune
    \/ \E c \in Sockets : HandlerCrashes(c)
    \/ \E c \in Sockets : HandlerLeaves(c)
    \/ \E c \in Sockets : HandlerJoins(c)

SpecFanOut == InitBC /\ [][NextFanOut]_vars

\* ------------------------------------------------- a room of several
\* Several connections of one room, each with a valid token of a participant;
\* they start a timer, chat and leave.
RoomAuth == {Auth("valid", TRUE, TRUE, TRUE)}

RoomInbound ==
    {Inbound("object", "timer", Content("object", "start_timer", TRUE, 1)),
     Inbound("object", "message", StrContent)}

InitRoom ==
    /\ timers = EmptyDict
    /\ tasks = EmptyDict
    /\ lock = NoProc
    /\ waiters = <<>>
    /\ fut = [p \in TaskIds \cup Peers |-> "none"]
    /\ task = [t \in TaskIds |-> FreeTask]
    /\ ready = <<>>
    /\ cur = NoProc
    /\ client = [c \in ClientIds |-> "idle"]
    /\ conn = [c \in Peers |-> NoConn]
    /\ registry = [r \in Rooms |-> <<>>]
    /\ messages = [r \in Rooms |-> <<>>]
    /\ inbox = [c \in Peers |-> <<>>]
    /\ ev = NoEvent
    /\ log = [r \in Rooms |-> <<>>]
    /\ lastCmd = [r \in Rooms |-> NoCmd]
    /\ bc = NoFrame

NextRoom ==
    \/ \E t \in TaskIds : TaskFirstStep(t)
    \/ \E t \in TaskIds : Acquire(t)
    \/ \E t \in TaskIds : Check51(t)
    \/ \E t \in TaskIds : TimerFires(t)
    \/ \E t \in TaskIds : SleepDone(t)
    \/ \E t \in TaskIds : Tick65(t)
    \/ \E t \in TaskIds : Except74(t)
    \/ \E t \in TaskIds : Finally81(t)
    \/ \E c \in Peers : \E r \in Rooms : ConnArrive(c, r)
    \/ \E c \in Peers : \E a \in RoomAuth : ConnHandshake(c, a)
    \/ \E c \in Peers : ConnWake(c)
    \/ \E c \in Peers : ConnRegister(c)
    \/ \E c \in Peers : \E p \in RoomInbound : ConnTimer(c, p)
    \/ \E c \in Peers : \E p \in RoomInbound : ConnChat(c, p, TRUE)
    \/ \E c \in Peers : ConnBroadcast(c)
    \/ \E c \in Peers : ConnDisconnect(c)
    \/ \E c \in Peers : ConnLeft(c)

SpecRoom == InitRoom /\ [][NextRoom]_vars

\* ------------------------------------------------- the replay, by steps
\* A room with a stored history of any length up to MaxStored, the messages
\* numbered in the order of their timestamps; nobody is connected.
InitReplay ==
    /\ timers = EmptyDict
    /\ tasks = EmptyDict
    /\ lock = NoProc
    /\ waiters = <<>>
    /\ fut = [p \in Procs |-> "none"]
    /\ task = [t \in TaskIds |-> FreeTask]
    /\ ready = <<>>
    /\ cur = NoProc
    /\ client = [c \in ClientIds |-> "idle"]
    /\ conn = [c \in Joiners |-> NoConn]
    /\ registry = [r \in Rooms |-> <<>>]
    /\ \E n \in 0..MaxStored : messages = [r \in Rooms |-> [i \in 1..n |-> i]]
    /\ inbox = [c \in Joiners |-> <<>>]
    /\ ev = NoEvent
    /\ log = [r \in Rooms |-> <<>>]
    /\ lastCmd = [r \in Rooms |-> NoCmd]
    /\ bc = NoFrame

\* The send of a previous_message the handler is suspended in completes.
ReplayWake(c) ==
    /\ conn[c].pc = "replay"
    /\ ConnWake(c)

\* Lines 79-89, one turn of the loop: the next message of
\* reversed(recent_messages) is sent on the handler's own socket.
ReplaySend(c) ==
    /\ IsHead(c) /\ conn[c].pc = "replay"
    /\ Len(inbox[c]) < Len(conn[c].hist)
    /\ ready' = Tail(ready)
    /\ inbox' = [inbox EXCEPT ![c] =
                    Append(@, <<"previous_message", Reverse(conn[c].hist)[Len(@) + 1]>>)]
    /\ ev' = NoEvent
    /\ UNCHANGED <<timers, tasks, lock, waiters, fut, task, cur, client,
                   conn, registry, messages, log, lastCmd, bc>>

\* Line 94: the loop is over, the connection joins the room's list.
ReplayJoin(c) ==
    /\ IsHead(c) /\ conn[c].pc = "replay"
    /\ Len(inbox[c]) = Len(conn[c].hist)
    /\ ready' = Tail(ready)
    /\ registry' = Connect(registry, conn[c].room, c)
    /\ conn' = [conn EXCEPT ![c].pc = "active"]
    /\ ev' = Event(c, "register", NoAuth, NoPayload, {})
    /\ UNCHANGED <<timers, tasks, lock, waiters, fut, task, cur, client,
                   messages, inbox, log, lastCmd, bc>>

NextReplay ==
    \/ \E c \in Joiners : \E r \in Rooms : ConnArrive(c, r)
    \/ \E c \in Joiners : \E a \in AuthCases : ConnHandshake(c, a)
    \/ \E c \in Joiners : ReplayWake(c)
    \/ \E c \in Joiners : ReplaySend(c)
    \/ \E c \in Joiners : ReplayJoin(c)

SpecReplay == InitReplay /\ [][NextReplay]_vars

\* ------------------------------------------------------------------ claims
RECURSIVE CountDown(_, _)
\* the tick notifications of a countdown from n: n-1, ..., 0, running
CountDown(n, d) ==
    IF n <= 0 THEN <<>>
    ELSE <<[remaining |-> n - 1, is_running |-> TRUE, duration |-> d]>> \o CountDown(n - 1, d)

\* what start(room, d, notify) is to yield: d ticks, then the terminal state
Expected(d) == CountDown(d, d) \o <<[remaining |-> 0, is_running |-> FALSE, duration |-> d]>>

Payload(n) == [remaining |-> n.remaining, is_running |-> n.is_running, duration |-> n.duration]
Payloads(lg) == [i \in 1..Len(lg) |-> Payload(lg[i])]
IsPrefix(s, t) == Len(s) <= Len(t) /\ \A i \in 1..Len(s) : s[i] = t[i]
Ticks(lg) == SelectSeq(lg, LAMBDA n : n.at = 70)

\* C1: every room has at most one live background ticking task at any instant
\* (a task that was cancelled and is on its way out is not counted).
C1_AtMostOneTickingTask ==
    \A r \in Rooms : Cardinality(TickingTasksOf(r)) <= 1

RECURSIVE UpdateCountDown(_)
\* the timer_update events of the ticks of a countdown from n
UpdateCountDown(n) ==
    IF n <= 0 THEN <<>> ELSE <<TimerUpdate(n - 1, TRUE)>> \o UpdateCountDown(n - 1)

\* C3: when a start_timer command with duration d was the last command on a
\* room and the countdown it started is over, every connection that was
\* registered when the command ran and still is has received d timer_update
\* events with remaining d-1, ..., 0 and then one with is_running = false.
C3_SubscribersReceiveCountdown ==
    \A r \in Rooms :
        (lastCmd[r].op = "start" /\ lastCmd[r].clean /\ LiveTasksOf(r) = {}) =>
            \A c \in lastCmd[r].subs \cap Registered(r) :
                inbox[c] = UpdateCountDown(lastCmd[r].d) \o <<TimerUpdate(0, FALSE)>>

\* C4: once pause has run on a room, remaining is not decremented until the
\* next command on the room; and every step that decrements remaining starts
\* in a state whose is_running is true.
C4_PauseHaltsDecrement ==
    [][\A r \in Rooms :
          (r \in DOMAIN timers /\ r \in DOMAIN timers' /\ lastCmd'[r] = lastCmd[r]) =>
              /\ lastCmd[r].op = "pause" => timers'[r].remaining = timers[r].remaining
              /\ timers'[r].remaining < timers[r].remaining => timers[r].is_running]_vars

\* a countdown was paused part way and its task has since woken and left
C4_Witness ==
    \E r \in Rooms :
        /\ lastCmd[r].op = "pause" /\ lastCmd[r].pre.has /\ lastCmd[r].pre.info.is_running
        /\ lastCmd[r].pre.info.remaining > 0
        /\ lastCmd[r].pre.info.remaining < lastCmd[r].pre.info.duration
        /\ r \in DOMAIN timers /\ timers[r].remaining = lastCmd[r].pre.info.remaining
        /\ LiveTasksOf(r) = {}

\* C5: after resume of a timer paused at remaining = k > 0 (and no further
\* command), duration is unchanged, remaining is k less the ticks made, and
\* the tick notifications carry k-1, k-2, ..., 0.
C5_ResumeContinues ==
    \A r \in Rooms :
        LET c == lastCmd[r] IN
        (c.op = "resume" /\ c.pre.has /\ ~c.pre.info.is_running /\ c.pre.info.remaining > 0) =>
            /\ r \in DOMAIN timers
            /\ timers[r].duration = c.pre.info.duration
            /\ IsPrefix(Payloads(Ticks(log[r])), CountDown(c.pre.info.remaining, c.pre.info.duration))
            /\ timers[r].remaining = c.pre.info.remaining - Len(Ticks(log[r]))
            /\ (Ticks(log[r]) = <<>> => timers[r].is_running)

\* C6: reset with a duration d leaves {duration=d, remaining=d, is_running=false};
\* reset without one on existing state leaves remaining = duration, the
\* duration unchanged and is_running=false.
C6_ResetState ==
    \A r \in Rooms :
        LET c == lastCmd[r] IN
        c.op = "reset" =>
            /\ c.hasD => (r \in DOMAIN timers /\ timers[r] = TimerInfo(c.d, c.d, FALSE))
            /\ (~c.hasD /\ c.pre.has) =>
                  (r \in DOMAIN timers
                   /\ timers[r] = TimerInfo(c.pre.info.duration, c.pre.info.duration, FALSE))

\* reset without a duration after a partial countdown
C6_Witness ==
    \E r \in Rooms :
        /\ lastCmd[r].op = "reset" /\ ~lastCmd[r].hasD /\ lastCmd[r].pre.has
        /\ lastCmd[r].pre.info.remaining < lastCmd[r].pre.info.duration
        /\ lastCmd[r].pre.info.remaining > 0
        /\ timers[r].remaining = lastCmd[r].pre.info.duration

\* C7: a room whose connection list is empty has no timer state and no live
\* ticking task: the disconnect of the last connection stopped the timer.
C7_EmptyRoomHasNoTimer ==
    \A r \in Rooms :
        Registered(r) = {} => (r \notin DOMAIN timers /\ TickingTasksOf(r) = {})

\* C8: after stop(room) and until the next command on the room, the room has
\* no state, no recorded task, and nothing is notified for it.
C8_StopSilences ==
    \A r \in Rooms :
        lastCmd[r].op = "stop" =>
            /\ r \notin DOMAIN timers
            /\ r \notin DOMAIN tasks
            /\ log[r] = <<>>

\* what the claim asks of a handshake
AllValid(a) == a.token = "valid" /\ a.user /\ a.room /\ a.part

\* C9: a handshake passes on to the replay only when the token is present and
\* valid, the user and the room exist and the user is a participant; any other
\* handshake closes the connection with code 1008 and leaves the registry, the
\* timers, the tasks and the messages as they were.  A connection enters the
\* registry only from the replay, and only a connection that went through the
\* replay processes payloads.
C9_OnlyAuthorizedRegister ==
    [][/\ ev'.kind = "handshake" =>
              IF AllValid(ev'.auth)
              THEN conn'[ev'.conn].pc = "replay"
              ELSE /\ conn'[ev'.conn].pc = "closed"
                   /\ conn'[ev'.conn].code = PolicyViolation
                   /\ UNCHANGED <<registry, timers, tasks, task, messages>>
       /\ \A c \in ConnIds :
              /\ (conn'[c].pc = "replay" /\ conn[c].pc # "replay") =>
                     (ev'.kind = "handshake" /\ ev'.conn = c /\ AllValid(ev'.auth))
              /\ \A r \in Rooms :
                     (c \in Registered(r)' /\ c \notin Registered(r)) =>
                         (conn[c].pc = "replay" /\ conn[c].room = r)
              /\ (conn'[c].pc = "active" /\ conn[c].pc \notin {"active", "persisted"}) =>
                     conn[c].pc = "replay"
       /\ ev'.kind = "payload" => conn[ev'.conn].pc = "active"]_vars

\* a participant check failed while the room had a message and a timer
C9_Witness ==
    /\ ev.kind = "handshake"
    /\ ev.auth = Auth("valid", TRUE, TRUE, FALSE)
    /\ conn[ev.conn].pc = "closed" /\ conn[ev.conn].code = PolicyViolation
    /\ \E r \in Rooms : messages[r] # <<>>

\* a payload the handler is to process: a chat message with a string
\* content, or a timer command whose content is an object naming one of the
\* four events
Recognized(p) ==
    /\ p.json = "object"
    /\ \/ p.type = "message" /\ p.content.kind = "string"
       \/ p.type = "timer" /\ p.content.kind = "object" /\ p.content.event \in TimerEvents

\* C10: a step that processes a payload that is not recognized sends one error
\* notice, to the sender only, leaves timers, tasks, registry and messages
\* unchanged, and leaves the handler in the receive loop.
C10_MalformedGetsErrorNotice ==
    [][(ev'.kind = "payload" /\ ~Recognized(ev'.payload)) =>
          /\ ev'.sent = {<<ev'.conn, "error", 0>>}
          /\ UNCHANGED <<timers, tasks, task, registry, messages>>
          /\ conn'[ev'.conn].pc = "active"]_vars

\* C12: no task is suspended in the notification callback while it holds the
\* engine's lock, so that another operation can take the lock meanwhile.
C12_NotifyOutsideLock ==
    \A t \in TaskIds : task[t].pc \in CbPcs => lock # t

\* C13: when pause was the last command on a room, and it found a running
\* timer, then once the room's tasks have left exactly one notification was
\* sent since the pause, carrying the paused remaining, is_running = false
\* and the duration.
C13_PauseSendsFinalSnapshot ==
    \A r \in Rooms :
        LET c == lastCmd[r] IN
        (c.op = "pause" /\ c.pre.has /\ c.pre.info.is_running
            /\ LiveTasksOf(r) = {}) =>
            Payloads(log[r]) = <<[remaining |-> c.pre.info.remaining, is_running |-> FALSE,
                                  duration |-> c.pre.info.duration]>>

\* C14: a reset that is given a duration, or that finds state, emits exactly
\* one notification, which carries the remaining, is_running and duration of
\* the state it leaves; a reset without duration on a room without state
\* emits nothing and leaves timers and tasks as they were.
C14_ResetNotifiesOnce ==
    [][(ev'.kind = "call" /\ ev'.call.op = "reset") =>
          LET r == ev'.call.room IN
          IF ev'.call.hasD \/ r \in DOMAIN timers
          THEN /\ r \in DOMAIN timers'
               /\ Payloads(log'[r]) = <<[remaining |-> timers'[r].remaining,
                                         is_running |-> timers'[r].is_running,
                                         duration |-> timers'[r].duration]>>
          ELSE /\ log'[r] = <<>>
               /\ UNCHANGED <<timers, tasks, task>>]_vars

\* a reset without duration announced the restored state of a timer that had
\* counted down part way
C14_Witness ==
    /\ ev.kind = "call" /\ ev.call.op = "reset" /\ ~ev.call.hasD
    /\ LET r == ev.call.room IN
       /\ lastCmd[r].pre.has /\ lastCmd[r].pre.info.remaining < lastCmd[r].pre.info.duration
       /\ Len(log[r]) = 1 /\ log[r][1].remaining = lastCmd[r].pre.info.duration

\* C15: whatever start(room, d, notify) finds, it leaves the room's state
\* {duration = d, remaining = d, is_running = true}; a task that was recorded
\* for the room is cancelled unless it had ended; and the step creates
\* exactly one task, which is the one recorded for the room afterwards.
C15_StartLastWriterWins ==
    [][(ev'.kind = "call" /\ ev'.call.op = "start") =>
          LET r == ev'.call.room
              d == ev'.call.d
          IN  /\ r \in DOMAIN timers' /\ timers'[r] = TimerInfo(d, d, TRUE)
              /\ r \in DOMAIN tasks =>
                     (task[tasks[r]].pc = "done" \/ task'[tasks[r]].cancelReq)
              /\ r \in DOMAIN tasks'
              /\ {t \in TaskIds : task'[t].pc = "new" /\ task[t].pc # "new"} = {tasks'[r]}
              /\ \A t \in TaskIds \ {tasks'[r]} : task'[t].pc = task[t].pc]_vars

\* a start replaced the recorded task while it slept
C15_Witness ==
    /\ ev.kind = "call" /\ ev.call.op = "start"
    /\ LET r == ev.call.room IN
       /\ timers[r] = TimerInfo(ev.call.d, ev.call.d, TRUE)
       /\ \E t \in TaskIds : t # tasks[r] /\ task[t].room = r /\ task[t].pc = "sleep"
                              /\ task[t].cancelReq

C17_ResumeRunningIsNoOp ==
    [][\A r \in Rooms :
          (/\ ev'.kind = "call" /\ ev'.call.op = "resume" /\ ev'.call.room = r
           /\ r \in DOMAIN timers /\ timers[r].is_running) =>
              UNCHANGED <<timers, tasks, task>>]_vars

\* a resume found the timer running with its task asleep part way down
C17_Witness ==
    /\ ev.kind = "call" /\ ev.call.op = "resume"
    /\ LET r == ev.call.room IN
       /\ lastCmd[r].pre.has /\ lastCmd[r].pre.info.is_running
       /\ r \in DOMAIN timers /\ timers[r].is_running
       /\ timers[r].remaining < timers[r].duration
       /\ r \in DOMAIN tasks /\ task[tasks[r]].pc = "sleep"

\* C18: a start_timer or reset_timer payload with a negative duration does
\* not reach the engine (no command runs, timers and tasks stay as they
\* were), and no timer state ever has a negative duration or remaining.
C18_NegativeDurationRejected ==
    [][/\ (/\ ev'.kind = "payload"
           /\ ~GetRaises(ev'.payload)
           /\ ev'.payload.type = "timer"
           /\ EventOf(ev'.payload) \in {"start_timer", "reset_timer"}
           /\ ev'.payload.content.hasD
           /\ ev'.payload.content.d < 0) =>
              UNCHANGED <<timers, tasks, task, lastCmd>>
       /\ \A r \in DOMAIN timers' :
              timers'[r].duration >= 0 /\ timers'[r].remaining >= 0]_vars

\* a payload the schema accepts as a chat message
ChatPayload(p) == ~GetRaises(p) /\ p.type = "message" /\ ValidMessageIn(p)

\* C19: a step on a chat payload whose insert fails (no message is stored)
\* sends one error notice, to the sender only, broadcasts nothing, leaves the
\* registry and the timers as they were and keeps the handler in the receive
\* loop; a new_message is sent only by the step that follows a stored message.
C19_StorageErrorNotice ==
    [][/\ (ev'.kind = "payload" /\ ChatPayload(ev'.payload) /\ messages' = messages) =>
              /\ ev'.sent = {<<ev'.conn, "error", 0>>}
              /\ conn'[ev'.conn].pc = "active"
              /\ UNCHANGED <<registry, timers, tasks, task>>
       /\ (\E x \in ev'.sent : x[2] = "new_message") =>
              (ev'.kind = "broadcast" /\ conn[ev'.conn].pc = "persisted")]_vars

\* the insert failed in a room that already holds a message
C19_Witness ==
    /\ ev.kind = "payload" /\ ChatPayload(ev.payload)
    /\ ev.sent = {<<ev.conn, "error", 0>>}
    /\ conn[ev.conn].pc = "active"
    /\ messages[conn[ev.conn].room] # <<>>

\* a timer payload that fails: its event is none of the four, or it is a
\* reset whose call of the callback raises
TimerCommandFails(p, r) ==
    /\ ~GetRaises(p) /\ p.type = "timer"
    /\ \/ EventOf(p) \notin TimerEvents
       \/ EventOf(p) = "reset_timer"
            /\ ResetRaises(r, p.content.d, p.content.hasD, "timer_broadcast")

\* C20: a step on a timer payload that fails sends one error notice, to the
\* issuing connection only, delivers nothing to the room, leaves the registry
\* as it was and keeps the handler in the receive loop.
C20_TimerErrorNotice ==
    [][\A c \in ConnIds :
          (/\ ev'.kind = "payload" /\ ev'.conn = c
           /\ TimerCommandFails(ev'.payload, conn[c].room)) =>
              /\ ev'.sent = {<<c, "error", 0>>}
              /\ conn'[c].pc = "active"
              /\ \A x \in ConnIds : inbox'[x] = <<>>
              /\ UNCHANGED registry]_vars

\* a reset_timer on a timer that had counted down: the engine's call raised
C20_Witness ==
    /\ ev.kind = "payload" /\ EventOf(ev.payload) = "reset_timer"
    /\ ev.sent = {<<ev.conn, "error", 0>>}
    /\ conn[ev.conn].pc = "active"
    /\ lastCmd[conn[ev.conn].room].op = "reset"
    /\ lastCmd[conn[ev.conn].room].pre.has
    /\ lastCmd[conn[ev.conn].room].pre.info.remaining < lastCmd[conn[ev.conn].room].pre.info.duration

C26_RemainingInRange ==
    \A r \in DOMAIN timers :
        /\ 0 <= timers[r].remaining
        /\ timers[r].remaining <= timers[r].duration

\* a tick on remaining 0: two tasks of the room slept at once, the first took
\* remaining from 1 to 0 and the second ticked on 0
C26_Witness ==
    \E r \in DOMAIN timers :
        /\ timers[r].remaining = 0 /\ timers[r].duration > 0
        /\ Len(log[r]) >= 2
        /\ LET a == log[r][Len(log[r]) - 1]
               b == log[r][Len(log[r])]
           IN  /\ a.at = 70 /\ a.remaining = 0
               /\ b.at = 70 /\ b.remaining = 0

\* C27: a room whose state says is_running has a live task of _run.
C27_RunningHasTask ==
    \A r \in DOMAIN timers : timers[r].is_running => LiveTasksOf(r) # {}

\* C28: a task never ticks (lines 68-70) when another task of its room has
\* ticked since it began the sleep it has just left: no two ticks of a room
\* fall within one unit of sleep.
C28_OneTickPerUnit ==
    [][\A t \in TaskIds :
          (/\ cur = t /\ task[t].pc = "L65" /\ task'[t].pc # "L65"
           /\ task[t].room \in DOMAIN timers
           /\ timers[task[t].room].is_running) => ~task[t].ovl]_vars

\* C29 (first half): no task ticks while the callback of an earlier tick of
\* its room is still awaited.
C29_TickAfterDelivery ==
    [][\A t \in TaskIds :
          (/\ cur = t /\ task[t].pc = "L65" /\ task'[t].pc # "L65"
           /\ task[t].room \in DOMAIN timers
           /\ timers[task[t].room].is_running) =>
              \A u \in TaskIds : task[u].room = task[t].room => task[u].pc # "C70"]_vars

\* C29: the tick notifications that follow one another since the last command
\* on a room go down by 1.
C29_TicksStrictlyDecreasing ==
    \A r \in Rooms : \A i \in 1..(Len(log[r]) - 1) :
        (log[r][i].at = 70 /\ log[r][i + 1].at = 70) =>
            log[r][i + 1].remaining = log[r][i].remaining - 1

\* C30: a task that ends after start cancelled it has made exactly one
\* notification since that cancel, one that ends after stop cancelled it has
\* made none, and no task makes more than one after its cancellation.
C30_CancelledTaskNotifiesOnce ==
    [][\A t \in TaskIds :
          /\ task'[t].post <= 1
          /\ (task[t].pc # "done" /\ task'[t].pc = "done") =>
                /\ task[t].by = "start" => task[t].post = 1
                /\ task[t].by = "stop"  => task[t].post = 0]_vars

Replayed(r) ==
    LET n == Len(messages[r])
        k == IF n <= HistoryLimit THEN n ELSE HistoryLimit
    IN  [i \in 1..k |-> <<"previous_message", messages[r][n - k + i]>>]

\* C24: a connection on a room's list has received exactly the newest
\* HistoryLimit messages of the room as previous_message events, oldest
\* first; a connection still replaying has a prefix of them and is on no
\* list; nothing reaches a connection that is not replaying or registered.
C24_ReplayBeforeRegister ==
    \A c \in Joiners :
        /\ (conn[c].room \in Rooms /\ c \in Registered(conn[c].room)) =>
              inbox[c] = Replayed(conn[c].room)
        /\ conn[c].pc = "replay" =>
              /\ \A r \in Rooms : c \notin Registered(r)
              /\ IsPrefix(inbox[c], Replayed(conn[c].room))
        /\ conn[c].pc \notin {"replay", "active"} => inbox[c] = <<>>

\* a history longer than the limit: the joiner is registered with the newest
\* HistoryLimit messages, while the other connection is still replaying
C24_Witness ==
    \E c, x \in Joiners :
        /\ c # x
        /\ conn[c].room \in Rooms
        /\ Len(messages[conn[c].room]) = HistoryLimit + 1
        /\ c \in Registered(conn[c].room)
        /\ Len(inbox[c]) = HistoryLimit
        /\ inbox[c][1] = <<"previous_message", 2>>
        /\ inbox[c][HistoryLimit] = <<"previous_message", HistoryLimit + 1>>
        /\ conn[x].pc = "replay" /\ Len(inbox[x]) = 1

\* C21: the step that takes WebSocketDisconnect removes the connection from
\* its room's list and sends nothing; the handler then leaves only through
\* the step that sends user_left, naming its user, to exactly the live
\* connections then on the list, the departed one not among them.
C21_UserLeftToRemaining ==
    [][\A c \in DOMAIN conn :
          /\ (ev'.kind = "disconnect" /\ ev'.conn = c) =>
                /\ conn[c].pc = "active"
                /\ c \notin {registry'[conn[c].room][i] : i \in DOMAIN registry'[conn[c].room]}
                /\ conn'[c].pc = "leaving"
          /\ (conn[c].pc = "leaving" /\ conn'[c].pc # "leaving") =>
                /\ ev'.kind = "left" /\ ev'.conn = c
                /\ ev'.sent = {<<x, "user_left", c>> :
                                 x \in {y \in Registered(conn[c].room) : conn[y].pc # "crashed"}}
                /\ \A m \in ev'.sent : m[1] # c]_vars

\* one connection has left and the other, still registered, was sent the
\* user_left that names it
C21_Witness ==
    /\ ev.kind = "left"
    /\ \E x \in DOMAIN conn :
          /\ x # ev.conn
          /\ ev.sent = {<<x, "user_left", ev.conn>>}
          /\ x \in Registered(conn[x].room)
          /\ conn[ev.conn].room = conn[x].room
    /\ \A r \in Rooms : ev.conn \notin Registered(r)

C22_TimerOutlivesStarter ==
    \A r \in Rooms :
        (/\ lastCmd[r].op = "start" /\ lastCmd[r].clean
         /\ r \in DOMAIN timers
         /\ LiveTasksOf(r) = {}
         /\ \E a \in lastCmd[r].subs : conn[a].pc \in {"leaving", "closed"}) =>
            \A c \in lastCmd[r].subs \cap Registered(r) :
                inbox[c] = UpdateCountDown(lastCmd[r].d) \o <<TimerUpdate(0, FALSE)>>

\* C32: every task of a room that goes on ticking is the task recorded for
\* the room, and the finally block of a task that is not the recorded one
\* leaves the record as it is.
C32_TaskMapTracksLiveTasks ==
    [][/\ \A r \in Rooms : \A t \in TickingTasksOf(r) :
             r \in DOMAIN tasks /\ tasks[r] = t
       /\ \A t \in TaskIds :
             (/\ cur = t /\ task[t].pc = "L81" /\ task'[t].pc = "done"
              /\ task[t].room \in DOMAIN tasks
              /\ tasks[task[t].room] # t) => tasks' = tasks]_vars

\* The record of room q in the dictionary f, or none.
EntryOf(f, q) == IF q \in DOMAIN f THEN <<f[q]>> ELSE <<>>

\* The step is an operation called on room q, or a step of a task of room q.
StepOfRoom(q) ==
    \/ ev'.kind = "call" /\ ev'.call.room = q
    \/ \E t \in TaskIds :
          /\ task[t].room = q /\ task[t].pc # "done"
          /\ (cur = t \/ IsHead(t))

\* C35: the state, the recorded task and the notifications of a room change
\* only in a step of that room (an operation called on it or a step of one of
\* its tasks), and every notification of a room carries that room's duration.
C35_RoomsIsolated ==
    [][\A q \in IsoRooms :
          /\ (\/ EntryOf(timers', q) # EntryOf(timers, q)
              \/ EntryOf(tasks', q) # EntryOf(tasks, q)
              \/ log'[q] # log[q]) => StepOfRoom(q)
          /\ \A i \in 1..Len(log'[q]) : log'[q][i].duration = q
          /\ q \in DOMAIN timers' => timers'[q].duration = q]_vars

\* both rooms count down at once: room 1 has ticked to 0 while room 2, started
\* with its own duration, still has a task recorded and has not ticked
C35_Witness ==
    /\ 1 \in DOMAIN timers /\ 2 \in DOMAIN timers
    /\ timers[1].remaining = 0 /\ Len(log[1]) > 0 /\ log[1][Len(log[1])].at = 70
    /\ timers[2].is_running /\ timers[2].remaining = 2
    /\ 2 \in DOMAIN tasks

\* C34: a connection whose handler has ended is on no room's list, and when
\* it leaves its room's list empty the room has no timer state and no task.
C34_RegistryOnlyActive ==
    \A c \in ConnIds :
        conn[c].pc \in {"closed", "crashed"} =>
            /\ \A r \in Rooms : ~InSeq(registry[r], c)
            /\ (conn[c].room \in Rooms /\ registry[conn[c].room] = <<>>) =>
                  /\ conn[c].room \notin DOMAIN timers
                  /\ conn[c].room \notin DOMAIN tasks

\* C33: when a stored message is broadcast, every connection of the room
\* that has fetched its history and has not disconnected, and whose history
\* does not hold the message, is sent it as new_message.
C33_JoinerMissesNoMessage ==
    [][ev'.kind = "broadcast" =>
          \A x \in Peers :
              (/\ conn[x].room = conn[ev'.conn].room
               /\ conn[x].pc \in {"replay", "active", "persisted"}
               /\ ~InSeq(conn[x].hist, conn[ev'.conn].msg)) =>
                  \E s \in ev'.sent :
                      /\ s[1] = x /\ s[2] = "new_message"
                      /\ s[3].id = conn[ev'.conn].msg]_vars

\* The last command on room r was start with duration d.
StartedWith(r, d) == lastCmd[r].op = "start" /\ lastCmd[r].d = d

\* Room r is idle at the end of a countdown of duration d.
TerminalIdle(r, d) ==
    /\ LiveTasksOf(r) = {}
    /\ r \notin DOMAIN tasks
    /\ r \in DOMAIN timers /\ timers[r] = TimerInfo(d, 0, FALSE)

\* C31: a countdown started with duration d that no further command
\* interrupts eventually ends: its task has exited, no task is recorded for
\* the room, and the state is {duration d, remaining 0, not running}.
C31_CountdownTerminates ==
    \A r \in IsoRooms : \A d \in Durations : StartedWith(r, d) ~> TerminalIdle(r, d)

\* a countdown of the longest duration has run to its end
C31_Witness ==
    \E r \in IsoRooms :
        /\ StartedWith(r, MaxDuration) /\ TerminalIdle(r, MaxDuration)
        /\ Len(log[r]) > 0 /\ log[r][Len(log[r])].remaining = 0

\* C36: every call of an engine operation that has been entered eventually
\* returns, and the lock is never left held by a task that has ended.
C36_EveryCallReturns ==
    /\ \A c \in ClientIds : (client[c] # "idle") ~> (client[c] = "idle")
    /\ [](\A t \in TaskIds : lock = t => task[t].pc # "done")

\* a caller is queued for the lock behind another waiter while a task of the
\* second room holds the lock, suspended in its callback
C36_Witness ==
    \E c \in ClientIds : \E t \in TaskIds :
        /\ client[c] = "wait" /\ InSeq(waiters, c)
        /\ Len(waiters) >= 2
        /\ lock = t /\ task[t].pc \in CbPcs /\ task[t].room = 2

====
